---------------------------- MODULE Spec2Model ----------------------------
(***************************************************************************)
(* Model of the deployment risk calculator action                          *)
(* (.github/actions/risk-calculator/index.js, printed in                   *)
(* Hands-On-JS-Actions.md, lines 131-298).                                 *)
(*                                                                         *)
(* Text that the program parses or builds (action inputs, the risk-score   *)
(* output) is a sequence of one-character strings; fixed literals of the   *)
(* program ('Files Changed', 'low', ...) are TLA+ strings.                 *)
(*                                                                         *)
(* A JavaScript number is a record [k, n, d]: k = "fin" is the rational    *)
(* n/d in lowest terms with d > 0, k = "nan" is NaN, k = "inf" is          *)
(* +Infinity and k = "ninf" is -Infinity.  Arithmetic is exact; negative   *)
(* zero is not distinguished from zero (no modelled input parses to -0).   *)
(***************************************************************************)
EXTENDS Integers, Sequences, FiniteSets, TLC

(***************************************************************************)
(* Bounds of the model.                                                    *)
(***************************************************************************)
\* Math.random() returns k/RandSteps for k in 0..RandSteps-1, or RandNearOne.
RandSteps == 2
\* The action is run at most MaxRuns times on the same event.
MaxRuns == 2

(***************************************************************************)
(* Constants of the program.                                               *)
(***************************************************************************)
FilesWeight == 30
LinesWeight == 35
CriticalWeight == 25
DeletionWeight == 10
ScoreCap == 100
CriticalLevelMin == 75
HighLevelMin == 50
MediumLevelMin == 25
WarningMin == 50
FilesHighImpact == 20
FilesMediumImpact == 10
LinesHighImpact == 25
LinesMediumImpact == 15
FilesFallbackRange == 30
FilesFallbackMin == 1
AdditionsFallbackRange == 400
AdditionsFallbackMin == 50
DeletionsFallbackRange == 200
DeletionsFallbackMin == 20

(***************************************************************************)
(* JavaScript numbers.                                                     *)
(***************************************************************************)
NaN == [k |-> "nan", n |-> 0, d |-> 1]
PosInf == [k |-> "inf", n |-> 0, d |-> 1]
NegInf == [k |-> "ninf", n |-> 0, d |-> 1]

Abs(i) == IF i < 0 THEN -i ELSE i

RECURSIVE GCD(_, _)
GCD(a, b) == IF b = 0 THEN a ELSE GCD(b, a % b)

\* The rational n/d (d # 0) in lowest terms with a positive denominator.
Rat(n, d) ==
    LET g == GCD(Abs(n), Abs(d))
        s == IF d < 0 THEN -1 ELSE 1
    IN  [k |-> "fin", n |-> (s * n) \div g, d |-> (s * d) \div g]

Num(i) == [k |-> "fin", n |-> i, d |-> 1]

IsFinite(x) == x.k = "fin"
IsInteger(x) == x.k = "fin" /\ x.d = 1

\* x / y
JsDiv(x, y) ==
    IF x.k = "nan" \/ y.k = "nan" THEN NaN
    ELSE IF x.k # "fin" /\ y.k # "fin" THEN NaN
    ELSE IF x.k # "fin" THEN (IF (x.k = "inf") = (y.n >= 0) THEN PosInf ELSE NegInf)
    ELSE IF y.k # "fin" THEN Num(0)
    ELSE IF y.n = 0 THEN (IF x.n = 0 THEN NaN ELSE IF x.n > 0 THEN PosInf ELSE NegInf)
    ELSE Rat(x.n * y.d, x.d * y.n)

\* x * y
JsMul(x, y) ==
    IF x.k = "nan" \/ y.k = "nan" THEN NaN
    ELSE IF x.k = "fin" /\ y.k = "fin" THEN Rat(x.n * y.n, x.d * y.d)
    ELSE LET sx == IF x.k = "fin" THEN x.n ELSE IF x.k = "inf" THEN 1 ELSE -1
             sy == IF y.k = "fin" THEN y.n ELSE IF y.k = "inf" THEN 1 ELSE -1
         IN  IF sx = 0 \/ sy = 0 THEN NaN
             ELSE IF (sx > 0) = (sy > 0) THEN PosInf ELSE NegInf

\* x + y
JsAdd(x, y) ==
    IF x.k = "nan" \/ y.k = "nan" THEN NaN
    ELSE IF x.k = "fin" /\ y.k = "fin" THEN Rat(x.n * y.d + y.n * x.d, x.d * y.d)
    ELSE IF x.k = "fin" THEN y
    ELSE IF y.k = "fin" THEN x
    ELSE IF x.k = y.k THEN x ELSE NaN

\* x > y and x >= y; any comparison with NaN is false.
JsGt(x, y) ==
    IF x.k = "nan" \/ y.k = "nan" THEN FALSE
    ELSE IF x.k = "ninf" \/ y.k = "inf" THEN FALSE
    ELSE IF x.k = "inf" \/ y.k = "ninf" THEN TRUE
    ELSE x.n * y.d > y.n * x.d

JsGe(x, y) ==
    IF x.k = "nan" \/ y.k = "nan" THEN FALSE
    ELSE x = y \/ JsGt(x, y)

\* Math.min(x, y)
MathMin(x, y) ==
    IF x.k = "nan" \/ y.k = "nan" THEN NaN
    ELSE IF JsGt(x, y) THEN y ELSE x

\* Math.round(x): the integer nearest to x, halves rounded towards +Infinity.
MathRound(x) ==
    IF x.k # "fin" THEN x
    ELSE Num((2 * x.n + x.d) \div (2 * x.d))

(***************************************************************************)
(* Text.                                                                   *)
(***************************************************************************)
DigitChars == <<"0", "1", "2", "3", "4", "5", "6", "7", "8", "9">>

IsDigit(c) == \E i \in 1..10 : DigitChars[i] = c
DigitVal(c) == (CHOOSE i \in 1..10 : DigitChars[i] = c) - 1
IsSpace(c) == c = " "

RECURSIVE TrimStart(_)
TrimStart(s) ==
    IF s # <<>> /\ IsSpace(Head(s)) THEN TrimStart(Tail(s)) ELSE s

RECURSIVE TrimEnd(_)
TrimEnd(s) ==
    IF s # <<>> /\ IsSpace(s[Len(s)]) THEN TrimEnd(SubSeq(s, 1, Len(s) - 1)) ELSE s

\* String.prototype.trim
Trim(s) == TrimEnd(TrimStart(s))

\* String.prototype.split(sep) for a one-character separator: "" gives [""].
RECURSIVE SplitFrom(_, _, _)
SplitFrom(s, sep, cur) ==
    IF s = <<>> THEN <<cur>>
    ELSE IF Head(s) = sep THEN <<cur>> \o SplitFrom(Tail(s), sep, <<>>)
    ELSE SplitFrom(Tail(s), sep, Append(cur, Head(s)))

Split(s, sep) == SplitFrom(s, sep, <<>>)

\* Array.prototype.map(f) and filter(Boolean) on an array of strings.
RECURSIVE MapTrim(_)
MapTrim(a) == IF a = <<>> THEN <<>> ELSE <<Trim(Head(a))>> \o MapTrim(Tail(a))

RECURSIVE FilterBoolean(_)
FilterBoolean(a) ==
    IF a = <<>> THEN <<>>
    ELSE IF Head(a) # <<>> THEN <<Head(a)>> \o FilterBoolean(Tail(a))
    ELSE FilterBoolean(Tail(a))

\* The value of the longest prefix of s made of decimal digits.
RECURSIVE DigitsPrefix(_, _, _)
DigitsPrefix(s, acc, seen) ==
    IF s # <<>> /\ IsDigit(Head(s))
    THEN DigitsPrefix(Tail(s), 10 * acc + DigitVal(Head(s)), TRUE)
    ELSE [value |-> acc, seen |-> seen]

\* parseInt(s, 10): leading white space is skipped, a sign is read, and the
\* digits that follow are the value; with no digit the result is NaN.
ParseInt(s) ==
    LET t == TrimStart(s)
        neg == t # <<>> /\ Head(t) = "-"
        u == IF t # <<>> /\ Head(t) \in {"-", "+"} THEN Tail(t) ELSE t
        p == DigitsPrefix(u, 0, FALSE)
    IN  IF ~p.seen THEN NaN
        ELSE Num(IF neg THEN -p.value ELSE p.value)

RECURSIVE NatToString(_)
NatToString(i) ==
    IF i < 10 THEN <<DigitChars[i + 1]>>
    ELSE Append(NatToString(i \div 10), DigitChars[(i % 10) + 1])

\* Number.prototype.toString() of an integer, NaN or an infinity.
NumberToString(x) ==
    IF x.k = "nan" THEN <<"N", "a", "N">>
    ELSE IF x.k = "inf" THEN <<"I", "n", "f", "i", "n", "i", "t", "y">>
    ELSE IF x.k = "ninf" THEN <<"-", "I", "n", "f", "i", "n", "i", "t", "y">>
    ELSE IF x.n < 0 THEN <<"-">> \o NatToString(-x.n)
    ELSE NatToString(x.n)

\* String.prototype.startsWith
StartsWith(s, prefix) ==
    Len(prefix) <= Len(s) /\ SubSeq(s, 1, Len(prefix)) = prefix


(***************************************************************************)
(* The environment of a run: the inputs of the workflow step, the event    *)
(* payload and the files the change set touches.                           *)
(***************************************************************************)
DefaultFilesThreshold == <<"2", "0">>
DefaultLinesThreshold == <<"5", "0", "0">>
DefaultCriticalPaths == <<>>

\* with: blocks of a workflow step (files-changed-threshold,
\* lines-changed-threshold, critical-paths).
ActionInputs ==
    { [files |-> DefaultFilesThreshold, lines |-> DefaultLinesThreshold,
       critical |-> DefaultCriticalPaths],
      [files |-> DefaultFilesThreshold, lines |-> DefaultLinesThreshold,
       critical |-> <<"p", ",", " ", "a">>],
      [files |-> <<" ", "3", "0">>, lines |-> <<"3", "5", "0", "x">>,
       critical |-> <<" ", ",", " ">>],
      [files |-> <<"0">>, lines |-> DefaultLinesThreshold,
       critical |-> DefaultCriticalPaths],
      [files |-> <<"-", "5">>, lines |-> DefaultLinesThreshold,
       critical |-> <<"p", ",", " ", "a">>],
      [files |-> DefaultFilesThreshold, lines |-> <<"0">>,
       critical |-> DefaultCriticalPaths],
      [files |-> DefaultFilesThreshold, lines |-> <<"-", "1", "0", "0">>,
       critical |-> DefaultCriticalPaths],
      [files |-> <<"a", "b", "c">>, lines |-> DefaultLinesThreshold,
       critical |-> DefaultCriticalPaths] }

\* github.context.payload.pull_request: undefined (present = FALSE) on a
\* workflow_dispatch event, else the pull request's counts.
NoPullRequest ==
    [present |-> FALSE, changed_files |-> 0, additions |-> 0, deletions |-> 0]

PullRequest(f, a, d) ==
    [present |-> TRUE, changed_files |-> f, additions |-> a, deletions |-> d]

PathTouchingCritical == <<"p", "/", "x">>
PathElsewhere == <<"d", "/", "y">>

\* An event: the payload and the paths of the files the change set touches.
Events ==
    { [pull_request |-> NoPullRequest, paths |-> {PathElsewhere}],
      [pull_request |-> PullRequest(0, 0, 0), paths |-> {PathElsewhere}],
      [pull_request |-> PullRequest(20, 0, 0), paths |-> {PathElsewhere}],
      [pull_request |-> PullRequest(40, 600, 0), paths |-> {PathTouchingCritical}],
      [pull_request |-> PullRequest(40, 600, 400),
       paths |-> {PathTouchingCritical, PathElsewhere}],
      [pull_request |-> PullRequest(20, 10, 400), paths |-> {PathElsewhere}],
      [pull_request |-> PullRequest(3, 11, 6), paths |-> {PathTouchingCritical}],
      [pull_request |-> PullRequest(7, 10, 6), paths |-> {PathElsewhere}],
      [pull_request |-> PullRequest(7, 100, 50), paths |-> {PathElsewhere}],
      [pull_request |-> PullRequest(10, 200, 50), paths |-> {PathTouchingCritical}] }

\* The values Math.random() returns in the model, as fractions n/d in [0, 1).
RandNearOne == [n |-> 1199, d |-> 1200]

RandomSamples ==
    { [n |-> i, d |-> RandSteps] : i \in 0..(RandSteps - 1) } \cup {RandNearOne}

\* A draw that forgets the offset.
FloorRandomNoMin(r, range, min) == (r.n * range) \div r.d

\* Math.floor(Math.random() * range) + min
FloorRandom(r, range, min) == ((r.n * range) \div r.d) + min

\* Math.random() > 0.6
RandomAbove(r) == 5 * r.n > 3 * r.d

(***************************************************************************)
(* State.                                                                  *)
(***************************************************************************)
VARIABLES
    inputs,            \* the step's inputs, as text
    event,             \* the event the workflow runs on
    pc,                \* position in run()
    runNo,             \* ordinal of this run on the event
    filesThreshold, linesThreshold, criticalPaths,
    filesChanged, additions, deletions, totalLines,
    riskScore, factors,
    riskLevel, recommendation, approvalRequired,
    outputs,           \* core.setOutput: name -> value
    warned,            \* core.warning was called
    prev,              \* what the previous run on this event emitted
    failed,            \* core.setFailed was called
    blocked            \* the workflow's blocking step exited with an error

\* The validate-inputs action (.github/actions/validate-inputs/index.js).
VARIABLES
    vInputs,           \* the step's inputs, as text
    vpc,               \* position in run()
    environment, version, port, enableSSL,
    isValid, errors,
    vErrorLog,         \* core.error: the messages, in order
    vOutputs,          \* core.setOutput: name -> value
    vFailed,           \* core.setFailed: the messages, in order
    vUnhandled         \* rejections that no handler received

\* The repo-info action (.github/actions/repo-info/index.js).
VARIABLES
    rInputs,           \* the step's inputs, as text
    rpc,               \* position in run()
    includeCollaborators,
    repoData,          \* what repos.get resolved to
    rCalls,            \* the API calls made, in order
    rOutputs,          \* core.setOutput: name -> value
    rFailed,           \* core.setFailed: the messages, in order
    rUnhandled         \* rejections that no handler received

riskVars == <<inputs, event, pc, runNo, filesThreshold, linesThreshold, criticalPaths,
              filesChanged, additions, deletions, totalLines, riskScore, factors,
              riskLevel, recommendation, approvalRequired, outputs, warned, prev,
              failed, blocked>>

validateVars == <<vInputs, vpc, environment, version, port, enableSSL, isValid,
                  errors, vErrorLog, vOutputs, vFailed, vUnhandled>>

repoVars == <<rInputs, rpc, includeCollaborators, repoData, rCalls, rOutputs,
              rFailed, rUnhandled>>

vars == <<riskVars, validateVars, repoVars>>

\* What an action of the risk calculator leaves alone outside its own state.
otherActions == <<validateVars, repoVars>>
job == <<failed, blocked>>

env == <<inputs, event>>
config == <<filesThreshold, linesThreshold, criticalPaths>>
metrics == <<filesChanged, additions, deletions, totalLines>>
assessment == <<riskLevel, recommendation, approvalRequired>>

NoOutputs == [name \in {} |-> <<>>]
NoPrev ==
    [set |-> FALSE, riskScore |-> Num(0), riskLevel |-> "", factors |-> <<>>,
     outputs |-> NoOutputs]

\* The locals of run() before it starts.
Fresh ==
    /\ pc = "start"
    /\ filesThreshold = NaN /\ linesThreshold = NaN /\ criticalPaths = <<>>
    /\ filesChanged = 0 /\ additions = 0 /\ deletions = 0 /\ totalLines = 0
    /\ riskScore = Num(0) /\ factors = <<>>
    /\ riskLevel = "" /\ recommendation = "" /\ approvalRequired = ""
    /\ outputs = NoOutputs
    /\ warned = FALSE

\* The validate-inputs action is not running.
NoValidateInputs ==
    [environment |-> <<>>, version |-> <<>>, port |-> <<>>, enableSSL |-> <<>>]

ValidateIdle ==
    /\ vInputs = NoValidateInputs
    /\ vpc = "idle"
    /\ environment = <<>> /\ version = <<>> /\ port = <<>> /\ enableSSL = <<>>
    /\ isValid = TRUE /\ errors = <<>>
    /\ vErrorLog = <<>>
    /\ vOutputs = NoOutputs
    /\ vFailed = <<>>
    /\ vUnhandled = <<>>

\* The repo-info action is not running.
NoRepoInputs == [token |-> <<>>, includeCollaborators |-> <<>>]
NoRepoData == [full_name |-> "", stargazers_count |-> 0, open_issues_count |-> 0]

RepoIdle ==
    /\ rInputs = NoRepoInputs
    /\ rpc = "idle"
    /\ includeCollaborators = FALSE
    /\ repoData = NoRepoData
    /\ rCalls = <<>>
    /\ rOutputs = NoOutputs
    /\ rFailed = <<>>
    /\ rUnhandled = <<>>

Init ==
    /\ inputs \in ActionInputs
    /\ event \in Events
    /\ runNo = 1
    /\ prev = NoPrev
    /\ Fresh
    /\ failed = FALSE /\ blocked = FALSE
    /\ ValidateIdle
    /\ RepoIdle

(***************************************************************************)
(* run(), lines 137-140: the inputs.                                       *)
(***************************************************************************)
\* core.getInput(name): the input's text, trimmed.
GetInput(text) == Trim(text)

\* core.getInput('critical-paths').split(',').map(p => p.trim()).filter(Boolean)
ParseCriticalPaths(text) == FilterBoolean(MapTrim(Split(GetInput(text), ",")))

GetInputs ==
    /\ pc = "start"
    /\ filesThreshold' = ParseInt(GetInput(inputs.files))
    /\ linesThreshold' = ParseInt(GetInput(inputs.lines))
    /\ criticalPaths' = ParseCriticalPaths(inputs.critical)
    /\ pc' = "inputs"
    /\ UNCHANGED <<otherActions, job, env, runNo, metrics, riskScore, factors, assessment, outputs,
                   warned, prev>>

(***************************************************************************)
(* run(), lines 142-147: the change set's counts.                          *)
(***************************************************************************)
\* The values of  prContext?.field || Math.floor(Math.random() * range) + min :
\* the field when it is there and truthy (not 0), else a random draw.
FieldOrRandom(pr, value, range, min) ==
    IF pr.present /\ value # 0 THEN {value}
    ELSE { FloorRandom(r, range, min) : r \in RandomSamples }

GetPrStats ==
    /\ pc = "inputs"
    /\ LET prContext == event.pull_request
       IN  /\ filesChanged' \in FieldOrRandom(prContext, prContext.changed_files,
                                              FilesFallbackRange, FilesFallbackMin)
           /\ additions' \in FieldOrRandom(prContext, prContext.additions,
                                           AdditionsFallbackRange, AdditionsFallbackMin)
           /\ deletions' \in FieldOrRandom(prContext, prContext.deletions,
                                           DeletionsFallbackRange, DeletionsFallbackMin)
    /\ totalLines' = additions' + deletions'
    /\ pc' = "metrics"
    /\ UNCHANGED <<otherActions, job, env, runNo, config, riskScore, factors, assessment, outputs,
                   warned, prev>>

(***************************************************************************)
(* run(), lines 153-211: the risk factors.                                 *)
(***************************************************************************)
\* A factor without its cap.
WeightedFactorUncapped(count, threshold, weight) ==
    JsMul(JsDiv(Num(count), threshold), Num(weight))

\* Math.min((count / threshold) * weight, weight)
WeightedFactor(count, threshold, weight) ==
    MathMin(JsMul(JsDiv(Num(count), threshold), Num(weight)), Num(weight))

\* Labels whose thresholds are inclusive.
ImpactInclusive(factor, high, medium) ==
    IF JsGe(factor, Num(high)) THEN "high"
    ELSE IF JsGe(factor, Num(medium)) THEN "medium"
    ELSE "low"

\* factor > high ? 'high' : factor > medium ? 'medium' : 'low'
Impact(factor, high, medium) ==
    IF JsGt(factor, Num(high)) THEN "high"
    ELSE IF JsGt(factor, Num(medium)) THEN "medium"
    ELSE "low"

\* Factor 1: number of files changed.
FilesFactor(fc, ft) == WeightedFactor(fc, ft, FilesWeight)

FilesEntry(fc, ft) ==
    [name |-> "Files Changed", value |-> Num(fc), threshold |-> ft,
     score |-> MathRound(FilesFactor(fc, ft)),
     impact |-> Impact(FilesFactor(fc, ft), FilesHighImpact, FilesMediumImpact)]

\* Factor 2: lines of code changed.
LinesFactor(tl, lt) == WeightedFactor(tl, lt, LinesWeight)

LinesEntry(tl, lt) ==
    [name |-> "Lines Changed", value |-> Num(tl), threshold |-> lt,
     score |-> MathRound(LinesFactor(tl, lt)),
     impact |-> Impact(LinesFactor(tl, lt), LinesHighImpact, LinesMediumImpact)]

\* Factor 3: the values of  criticalPaths.length > 0 && Math.random() > 0.6
TouchesCritical(paths) ==
    IF Len(paths) > 0 THEN { RandomAbove(r) : r \in RandomSamples } ELSE {FALSE}

CriticalFactor(touchesCritical) ==
    IF touchesCritical THEN Num(CriticalWeight) ELSE Num(0)

\* A critical-path factor that is listed only when it scores.
CriticalEntriesWhenTouched(touchesCritical) ==
    IF touchesCritical
    THEN << [name |-> "Critical Paths", value |-> "Yes", threshold |-> "N/A",
             score |-> Num(CriticalWeight), impact |-> "high"] >>
    ELSE <<>>

CriticalEntries(touchesCritical) ==
    IF touchesCritical
    THEN << [name |-> "Critical Paths", value |-> "Yes", threshold |-> "N/A",
             score |-> Num(CriticalWeight), impact |-> "high"] >>
    ELSE << [name |-> "Critical Paths", value |-> "No", threshold |-> "N/A",
             score |-> Num(0), impact |-> "none"] >>

\* Factor 4: ratio of deletions to additions.
DeletionRatio(a, d) == JsDiv(Num(d), Num(a + 1))

\* A ratio test that also fires at exactly one half.
HighDeletionRatioInclusive(a, d) == JsGe(DeletionRatio(a, d), Rat(1, 2))

HighDeletionRatio(a, d) == JsGt(DeletionRatio(a, d), Rat(1, 2))

DeletionFactor(a, d) ==
    IF HighDeletionRatio(a, d) THEN Num(DeletionWeight) ELSE Num(0)

DeletionEntries(a, d) ==
    IF HighDeletionRatio(a, d)
    THEN << [name |-> "High Deletion Ratio",
             value |-> NumberToString(MathRound(JsMul(DeletionRatio(a, d), Num(100))))
                       \o <<"%">>,
             threshold |-> "50%", score |-> Num(DeletionWeight),
             impact |-> "medium"] >>
    ELSE <<>>

\* The factors pushed in another order: the critical-path entry first.
CalculateFactorsMisordered ==
    /\ pc = "metrics"
    /\ \E touchesCritical \in TouchesCritical(criticalPaths) :
         /\ riskScore' =
              JsAdd(JsAdd(JsAdd(JsAdd(Num(0),
                                      FilesFactor(filesChanged, filesThreshold)),
                                LinesFactor(totalLines, linesThreshold)),
                          CriticalFactor(touchesCritical)),
                    DeletionFactor(additions, deletions))
         /\ factors' =
              CriticalEntries(touchesCritical)
              \o << FilesEntry(filesChanged, filesThreshold),
                    LinesEntry(totalLines, linesThreshold) >>
              \o DeletionEntries(additions, deletions)
    /\ pc' = "factors"
    /\ UNCHANGED <<otherActions, job, env, runNo, config, metrics, assessment, outputs,
                   warned, prev>>

CalculateFactors ==
    /\ pc = "metrics"
    /\ \E touchesCritical \in TouchesCritical(criticalPaths) :
         /\ riskScore' =
              JsAdd(JsAdd(JsAdd(JsAdd(Num(0),
                                      FilesFactor(filesChanged, filesThreshold)),
                                LinesFactor(totalLines, linesThreshold)),
                          CriticalFactor(touchesCritical)),
                    DeletionFactor(additions, deletions))
         /\ factors' =
              << FilesEntry(filesChanged, filesThreshold),
                 LinesEntry(totalLines, linesThreshold) >>
              \o CriticalEntries(touchesCritical)
              \o DeletionEntries(additions, deletions)
    /\ pc' = "factors"
    /\ UNCHANGED <<otherActions, job, env, runNo, config, metrics, assessment, outputs, warned, prev>>

(***************************************************************************)
(* run(), lines 213-214: the cap.                                          *)
(***************************************************************************)
\* A cap that truncates (Math.floor) where the code rounds.
CapScoreTruncated(raw) ==
    MathMin(IF raw.k = "fin" THEN Num(raw.n \div raw.d) ELSE raw, Num(ScoreCap))

\* A cap that forgets Math.round.
CapScoreNoRound(raw) == MathMin(raw, Num(ScoreCap))

\* Math.min(Math.round(riskScore), 100)
CapScore(raw) == MathMin(MathRound(raw), Num(ScoreCap))

CapAtHundred ==
    /\ pc = "factors"
    /\ riskScore' = CapScore(riskScore)
    /\ pc' = "capped"
    /\ UNCHANGED <<otherActions, job, env, runNo, config, metrics, factors, assessment, outputs,
                   warned, prev>>

(***************************************************************************)
(* run(), lines 216-235: risk level and recommendation.                    *)
(***************************************************************************)
\* A classifier whose thresholds are exclusive lower bounds.
ClassifyExclusive(score) ==
    IF JsGt(score, Num(CriticalLevelMin))
    THEN [riskLevel |-> "critical",
          recommendation |->
              "Deploy during maintenance window with full team availability",
          approvalRequired |-> "VP approval required"]
    ELSE IF JsGt(score, Num(HighLevelMin))
    THEN [riskLevel |-> "high",
          recommendation |->
              "Deploy during low-traffic hours with rollback plan ready",
          approvalRequired |-> "Senior engineer approval required"]
    ELSE IF JsGt(score, Num(MediumLevelMin))
    THEN [riskLevel |-> "medium",
          recommendation |-> "Standard deployment process with monitoring",
          approvalRequired |-> "Peer review required"]
    ELSE [riskLevel |-> "low",
          recommendation |-> "Safe to deploy anytime",
          approvalRequired |-> "Standard review process"]

\* A classifier whose second and third branches carry each other's level.
ClassifySwapped(score) ==
    IF JsGe(score, Num(CriticalLevelMin))
    THEN [riskLevel |-> "critical",
          recommendation |->
              "Deploy during maintenance window with full team availability",
          approvalRequired |-> "VP approval required"]
    ELSE IF JsGe(score, Num(HighLevelMin))
    THEN [riskLevel |-> "medium",
          recommendation |-> "Standard deployment process with monitoring",
          approvalRequired |-> "Peer review required"]
    ELSE IF JsGe(score, Num(MediumLevelMin))
    THEN [riskLevel |-> "high",
          recommendation |->
              "Deploy during low-traffic hours with rollback plan ready",
          approvalRequired |-> "Senior engineer approval required"]
    ELSE [riskLevel |-> "low",
          recommendation |-> "Safe to deploy anytime",
          approvalRequired |-> "Standard review process"]

Classify(score) ==
    IF JsGe(score, Num(CriticalLevelMin))
    THEN [riskLevel |-> "critical",
          recommendation |->
              "Deploy during maintenance window with full team availability",
          approvalRequired |-> "VP approval required"]
    ELSE IF JsGe(score, Num(HighLevelMin))
    THEN [riskLevel |-> "high",
          recommendation |->
              "Deploy during low-traffic hours with rollback plan ready",
          approvalRequired |-> "Senior engineer approval required"]
    ELSE IF JsGe(score, Num(MediumLevelMin))
    THEN [riskLevel |-> "medium",
          recommendation |-> "Standard deployment process with monitoring",
          approvalRequired |-> "Peer review required"]
    ELSE [riskLevel |-> "low",
          recommendation |-> "Safe to deploy anytime",
          approvalRequired |-> "Standard review process"]

DetermineLevel ==
    /\ pc = "capped"
    /\ riskLevel' = Classify(riskScore).riskLevel
    /\ recommendation' = Classify(riskScore).recommendation
    /\ approvalRequired' = Classify(riskScore).approvalRequired
    /\ pc' = "classified"
    /\ UNCHANGED <<otherActions, job, env, runNo, config, metrics, riskScore, factors, outputs,
                   warned, prev>>

(***************************************************************************)
(* run(), lines 237-257: the analysis object and the outputs.              *)
(***************************************************************************)
\* JSON.stringify of a number: NaN and the infinities are written as null.
JsonNull == [k |-> "null", n |-> 0, d |-> 1]
JsonNumber(x) == IF x.k = "fin" THEN x ELSE JsonNull

JsonFactor(f) ==
    [name |-> f.name,
     value |-> IF f.name \in {"Files Changed", "Lines Changed"}
               THEN JsonNumber(f.value) ELSE f.value,
     threshold |-> IF f.name \in {"Files Changed", "Lines Changed"}
                   THEN JsonNumber(f.threshold) ELSE f.threshold,
     score |-> JsonNumber(f.score),
     impact |-> f.impact]

\* JSON.stringify(analysis); new Date() is the ordinal of the run.
Analysis ==
    [riskScore |-> JsonNumber(riskScore),
     riskLevel |-> riskLevel,
     factors |-> [i \in 1..Len(factors) |-> JsonFactor(factors[i])],
     metrics |-> [filesChanged |-> filesChanged, additions |-> additions,
                  deletions |-> deletions, totalLines |-> totalLines],
     recommendation |-> recommendation,
     approvalRequired |-> approvalRequired,
     timestamp |-> runNo]

SetOutputs ==
    /\ pc = "classified"
    /\ outputs' = ("risk-score" :> NumberToString(riskScore))
                  @@ ("risk-level" :> riskLevel)
                  @@ ("recommendation" :> recommendation)
                  @@ ("analysis" :> Analysis)
    /\ pc' = "outputs"
    /\ UNCHANGED <<otherActions, job, env, runNo, config, metrics, riskScore, factors, assessment,
                   warned, prev>>

(***************************************************************************)
(* run(), lines 259-290: the log, the summary and the warning.             *)
(* core.warning only annotates the run.  No statement of the try block     *)
(* throws, and the promise of core.summary.write() is not awaited, so the  *)
(* catch of lines 292-294 (core.setFailed) is never entered.               *)
(***************************************************************************)
\* A report that fails the action where the code only warns.
FailHighRisk(score, wasFailed) ==
    [warned |-> FALSE, failed |-> wasFailed \/ JsGe(score, Num(WarningMin))]

\* if (riskScore >= 50) core.warning(...)
WarnHighRisk(score, wasFailed) ==
    [warned |-> JsGe(score, Num(WarningMin)), failed |-> wasFailed]

Report ==
    /\ pc = "outputs"
    /\ warned' = WarnHighRisk(riskScore, failed).warned
    /\ failed' = WarnHighRisk(riskScore, failed).failed
    /\ pc' = "done"
    /\ UNCHANGED <<otherActions, blocked, env, runNo, config, metrics, riskScore, factors,
                   assessment, outputs, prev>>

(***************************************************************************)
(* test-risk-calculator.yml, lines 326-339: the steps after the action.    *)
(* A step with an if: that names no status function runs only when the     *)
(* steps before it succeeded.                                              *)
(***************************************************************************)
\* if: steps.risk.outputs.risk-level == 'critical'  ...  exit 1
BlockingStepRuns(actionFailed, stepOutputs) ==
    /\ ~actionFailed
    /\ "risk-level" \in DOMAIN stepOutputs
    /\ stepOutputs["risk-level"] = "critical"

DownstreamSteps ==
    /\ pc = "done"
    /\ blocked' = BlockingStepRuns(failed, outputs)
    /\ pc' = "job-end"
    /\ UNCHANGED <<otherActions, failed, env, runNo, config, metrics, riskScore, factors,
                   assessment, outputs, warned, prev>>

(***************************************************************************)
(* The workflow runs the action again on the same event and inputs.        *)
(***************************************************************************)
Emitted ==
    [set |-> TRUE, riskScore |-> riskScore, riskLevel |-> riskLevel,
     factors |-> factors, outputs |-> outputs]

Rerun ==
    /\ pc = "done"
    /\ runNo < MaxRuns
    /\ prev' = Emitted
    /\ runNo' = runNo + 1
    /\ pc' = "start"
    /\ filesThreshold' = NaN /\ linesThreshold' = NaN /\ criticalPaths' = <<>>
    /\ filesChanged' = 0 /\ additions' = 0 /\ deletions' = 0 /\ totalLines' = 0
    /\ riskScore' = Num(0) /\ factors' = <<>>
    /\ riskLevel' = "" /\ recommendation' = "" /\ approvalRequired' = ""
    /\ outputs' = NoOutputs
    /\ warned' = FALSE
    /\ UNCHANGED <<otherActions, job, env>>

Next ==
    \/ GetInputs
    \/ GetPrStats
    \/ CalculateFactors
    \/ CapAtHundred
    \/ DetermineLevel
    \/ SetOutputs
    \/ Report
    \/ DownstreamSteps
    \/ Rerun

Spec == Init /\ [][Next]_vars

(***************************************************************************)
(* The classifier alone: lines 216-235 applied to every score the cap can  *)
(* leave, one run after another.                                           *)
(***************************************************************************)
InitClassify ==
    /\ inputs = [files |-> DefaultFilesThreshold, lines |-> DefaultLinesThreshold,
                 critical |-> DefaultCriticalPaths]
    /\ event = [pull_request |-> NoPullRequest, paths |-> {PathElsewhere}]
    /\ runNo = 1
    /\ prev = NoPrev
    /\ pc = "capped"
    /\ riskScore \in { Num(s) : s \in 0..ScoreCap }
    /\ filesThreshold = NaN /\ linesThreshold = NaN /\ criticalPaths = <<>>
    /\ filesChanged = 0 /\ additions = 0 /\ deletions = 0 /\ totalLines = 0
    /\ factors = <<>>
    /\ riskLevel = "" /\ recommendation = "" /\ approvalRequired = ""
    /\ outputs = NoOutputs
    /\ warned = FALSE
    /\ failed = FALSE /\ blocked = FALSE
    /\ ValidateIdle
    /\ RepoIdle

\* Another run reaches line 216 with some score.
NextScore ==
    /\ pc = "classified"
    /\ runNo < MaxRuns
    /\ prev' = Emitted
    /\ runNo' = runNo + 1
    /\ riskScore' \in { Num(s) : s \in 0..ScoreCap }
    /\ riskLevel' = "" /\ recommendation' = "" /\ approvalRequired' = ""
    /\ pc' = "capped"
    /\ UNCHANGED <<otherActions, job, env, config, metrics, factors, outputs, warned>>

NextClassify == DetermineLevel \/ NextScore

SpecClassify == InitClassify /\ [][NextClassify]_vars

(***************************************************************************)
(* Vocabulary of the properties.                                           *)
(***************************************************************************)
IsPositiveInt(x) == IsInteger(x) /\ x.n > 0
IsNonPositiveInt(x) == IsInteger(x) /\ x.n <= 0

PositiveThresholds == IsPositiveInt(filesThreshold) /\ IsPositiveInt(linesThreshold)

InputsRead == pc # "start"
MetricsRead == pc \notin {"start", "inputs"}
FactorsDone == pc \in {"factors", "capped", "classified", "outputs", "done"}
ScoreCapped == pc \in {"capped", "classified", "outputs", "done"}
Classified == pc \in {"classified", "outputs", "done"}
OutputsSet == pc \in {"outputs", "done"}

\* The positions in factors of the entries with a name.
Entries(name) == { i \in 1..Len(factors) : factors[i].name = name }

LevelRank(level) ==
    CASE level = "low" -> 0
      [] level = "medium" -> 1
      [] level = "high" -> 2
      [] level = "critical" -> 3

(***************************************************************************)
(* C1.  With positive integer thresholds the emitted risk score is an      *)
(* integer in [0, 100], and it is exactly 100 when the four dimensions     *)
(* contribute 30, 35, 25 and 10.                                           *)
(***************************************************************************)
AllDimensionsAtMax ==
    /\ FilesFactor(filesChanged, filesThreshold) = Num(FilesWeight)
    /\ LinesFactor(totalLines, linesThreshold) = Num(LinesWeight)
    /\ \E i \in Entries("Critical Paths") : factors[i].score = Num(CriticalWeight)
    /\ Entries("High Deletion Ratio") # {}

C1_ScoreWithinRange ==
    PositiveThresholds =>
        /\ ScoreCapped =>
             /\ IsInteger(riskScore) /\ riskScore.n \in 0..100
             /\ AllDimensionsAtMax => riskScore = Num(100)
        /\ OutputsSet =>
             /\ \E s \in 0..100 : outputs["risk-score"] = NatToString(s)
             /\ AllDimensionsAtMax => outputs["risk-score"] = <<"1", "0", "0">>

C1_Witness ==
    /\ pc = "done" /\ PositiveThresholds /\ AllDimensionsAtMax
    /\ outputs["risk-score"] = <<"1", "0", "0">>

(***************************************************************************)
(* C2.  Every integer score in [0, 100] gets exactly the level,            *)
(* recommendation and approval of its band; 25, 50 and 75 belong to the    *)
(* higher band.                                                            *)
(***************************************************************************)
C2_ClassifierTable ==
    (pc = "classified" /\ IsInteger(riskScore) /\ riskScore.n \in 0..100) =>
        LET s == riskScore.n
        IN  /\ s >= 75 =>
                 /\ riskLevel = "critical"
                 /\ recommendation =
                      "Deploy during maintenance window with full team availability"
                 /\ approvalRequired = "VP approval required"
            /\ (50 <= s /\ s < 75) =>
                 /\ riskLevel = "high"
                 /\ recommendation =
                      "Deploy during low-traffic hours with rollback plan ready"
                 /\ approvalRequired = "Senior engineer approval required"
            /\ (25 <= s /\ s < 50) =>
                 /\ riskLevel = "medium"
                 /\ recommendation = "Standard deployment process with monitoring"
                 /\ approvalRequired = "Peer review required"
            /\ s < 25 =>
                 /\ riskLevel = "low"
                 /\ recommendation = "Safe to deploy anytime"
                 /\ approvalRequired = "Standard review process"

C2_Witness ==
    /\ pc = "classified" /\ riskScore = Num(50) /\ riskLevel = "high"
    /\ prev.set /\ prev.riskScore = Num(49) /\ prev.riskLevel = "medium"

(***************************************************************************)
(* C3.  Of two runs, the one with the higher or equal score has the higher *)
(* or equal level, in the order low < medium < high < critical.            *)
(***************************************************************************)
C3_LevelMonotonic ==
    (prev.set /\ pc = "classified") =>
        \A a, b \in { [score |-> riskScore, level |-> riskLevel],
                      [score |-> prev.riskScore, level |-> prev.riskLevel] } :
            JsGe(a.score, b.score) => LevelRank(a.level) >= LevelRank(b.level)

C3_Witness ==
    /\ prev.set /\ pc = "classified"
    /\ JsGt(riskScore, prev.riskScore)
    /\ riskLevel = "critical" /\ prev.riskLevel = "low"

(***************************************************************************)
(* C4.  Two runs with the same explicit metrics and the same configuration *)
(* emit the same score, level and factors.  The metrics are explicit: the  *)
(* pull request supplies three counts that the run uses (none is 0), and   *)
(* the thresholds are positive.                                            *)
(***************************************************************************)
ExplicitMetrics ==
    /\ event.pull_request.present
    /\ event.pull_request.changed_files > 0
    /\ event.pull_request.additions > 0
    /\ event.pull_request.deletions > 0

C4_SameInputsSameAssessment ==
    (prev.set /\ pc = "done" /\ ExplicitMetrics /\ PositiveThresholds) =>
        /\ outputs["risk-score"] = prev.outputs["risk-score"]
        /\ outputs["risk-level"] = prev.outputs["risk-level"]
        /\ factors = prev.factors

(***************************************************************************)
(* C5.  When the change set supplies the three counts, the metrics are     *)
(* exactly those counts, 0 included, and totalLines is their sum.          *)
(***************************************************************************)
C5_SuppliedCountsUsed ==
    (MetricsRead /\ event.pull_request.present) =>
        /\ filesChanged = event.pull_request.changed_files
        /\ additions = event.pull_request.additions
        /\ deletions = event.pull_request.deletions
        /\ totalLines = additions + deletions
        /\ OutputsSet =>
             outputs["analysis"].metrics =
                 [filesChanged |-> event.pull_request.changed_files,
                  additions |-> event.pull_request.additions,
                  deletions |-> event.pull_request.deletions,
                  totalLines |-> event.pull_request.additions
                                 + event.pull_request.deletions]

(***************************************************************************)
(* C6.  With explicit additions = 0 and deletions = 0, positive thresholds *)
(* and no critical path configured, the lines dimension contributes 0, no  *)
(* deletion-ratio factor is listed and the score is the rounded files      *)
(* contribution: 0 and low for no file, 30 and medium for as many files as *)
(* the threshold.                                                          *)
(***************************************************************************)
C6_NoLinesChanged ==
    ( /\ pc = "done"
      /\ event.pull_request.present
      /\ event.pull_request.additions = 0
      /\ event.pull_request.deletions = 0
      /\ PositiveThresholds
      /\ criticalPaths = <<>> ) =>
        /\ \A i \in Entries("Lines Changed") : factors[i].score = Num(0)
        /\ Entries("High Deletion Ratio") = {}
        /\ riskScore =
             MathRound(FilesFactor(event.pull_request.changed_files, filesThreshold))
        /\ event.pull_request.changed_files = 0 =>
             (outputs["risk-score"] = <<"0">> /\ outputs["risk-level"] = "low")
        /\ Num(event.pull_request.changed_files) = filesThreshold =>
             (outputs["risk-score"] = <<"3", "0">> /\ outputs["risk-level"] = "medium")

(***************************************************************************)
(* C7.  The deletion-ratio factor is listed exactly when                   *)
(* 2 * deletions > additions + 1; listed, it scores 10 with impact medium; *)
(* not listed, it adds nothing to the score.                               *)
(***************************************************************************)
C7_DeletionRatioFactor ==
    FactorsDone =>
        LET listed == Entries("High Deletion Ratio") # {}
            critical == IF Entries("Critical Paths") = {} THEN Num(0)
                        ELSE factors[CHOOSE i \in Entries("Critical Paths") : TRUE].score
            others == JsAdd(JsAdd(FilesFactor(filesChanged, filesThreshold),
                                  LinesFactor(totalLines, linesThreshold)),
                            critical)
        IN  /\ listed <=> (2 * deletions > additions + 1)
            /\ \A i \in Entries("High Deletion Ratio") :
                 factors[i].score = Num(10) /\ factors[i].impact = "medium"
            /\ pc = "factors" =>
                 riskScore = IF listed THEN JsAdd(others, Num(10)) ELSE others

C7_Witness ==
    /\ pc = "done"
    /\ additions = 10 /\ deletions = 400
    /\ Entries("High Deletion Ratio") = {4}
    /\ factors[4].score = Num(10)

(***************************************************************************)
(* C8.  As claimed: the critical-path factor is listed exactly when        *)
(* criticalPaths is not empty.                                             *)
(***************************************************************************)
C8_ListedIffConfigured ==
    FactorsDone => ((Entries("Critical Paths") # {}) <=> (Len(criticalPaths) > 0))

(***************************************************************************)
(* C8, amended.  The critical-path factor is listed in every run, once;    *)
(* with an empty criticalPaths list it is listed with value 'No', score 0  *)
(* and impact none.                                                        *)
(***************************************************************************)
C8_AlwaysListed ==
    FactorsDone =>
        /\ Cardinality(Entries("Critical Paths")) = 1
        /\ criticalPaths = <<>> =>
             \A i \in Entries("Critical Paths") :
                 /\ factors[i].value = "No"
                 /\ factors[i].score = Num(0)
                 /\ factors[i].impact = "none"

C8_Witness ==
    /\ pc = "done" /\ criticalPaths = <<>>
    /\ Entries("Critical Paths") = {3}
    /\ factors[3].value = "No"

(***************************************************************************)
(* C9.  The critical-path factor scores 25 with impact high exactly when a *)
(* changed file's path starts with a configured prefix, and 0 with impact  *)
(* none otherwise.                                                         *)
(***************************************************************************)
ChangeTouchesCriticalPath ==
    \E path \in event.paths :
        \E i \in 1..Len(criticalPaths) : StartsWith(path, criticalPaths[i])

C9_ScoreFollowsChangedPaths ==
    FactorsDone =>
        \A i \in Entries("Critical Paths") :
            IF ChangeTouchesCriticalPath
            THEN factors[i].score = Num(25) /\ factors[i].impact = "high"
            ELSE factors[i].score = Num(0) /\ factors[i].impact = "none"

(***************************************************************************)
(* C10.  A run with a zero or negative threshold sets no risk-score output *)
(* and lists no factor with a negative or infinite contribution.           *)
(***************************************************************************)
C10_NonPositiveThresholdRejected ==
    (InputsRead /\ (IsNonPositiveInt(filesThreshold) \/ IsNonPositiveInt(linesThreshold))) =>
        /\ "risk-score" \notin DOMAIN outputs
        /\ \A i \in 1..Len(factors) :
             IsFinite(factors[i].score) /\ factors[i].score.n >= 0

(***************************************************************************)
(* C11.  A count that the change set does not supply (no pull request, or  *)
(* a count the code takes as missing) is replaced by a value within its    *)
(* bound: filesChanged in [1, 30], additions in [50, 449], deletions in    *)
(* [20, 219]; no metric is left undefined, and totalLines is in [70, 668]  *)
(* when both line counts are replaced.                                     *)
(***************************************************************************)
Missing(value) == ~event.pull_request.present \/ value = 0

C11_FallbackWithinBounds ==
    MetricsRead =>
        /\ filesChanged \in Nat /\ additions \in Nat /\ deletions \in Nat
        /\ Missing(event.pull_request.changed_files) => filesChanged \in 1..30
        /\ Missing(event.pull_request.additions) => additions \in 50..449
        /\ Missing(event.pull_request.deletions) => deletions \in 20..219
        /\ (Missing(event.pull_request.additions)
            /\ Missing(event.pull_request.deletions)) => totalLines \in 70..668

C11_Witness ==
    /\ pc = "done" /\ ~event.pull_request.present
    /\ filesChanged = 30 /\ additions = 449 /\ deletions = 219 /\ totalLines = 668

(***************************************************************************)
(* C13.  The job is halted, by the blocking step exiting with an error,    *)
(* exactly when the risk level is critical; a score of 50 or more makes    *)
(* the action warn, the warning does not fail the action, and a run with   *)
(* level high proceeds.                                                    *)
(***************************************************************************)
JobHalted == failed \/ blocked

C13_BlockedIffCritical ==
    /\ pc \in {"done", "job-end"} =>
         /\ ~failed
         /\ IsInteger(riskScore) => (warned <=> riskScore.n >= 50)
         /\ warned => outputs["risk-level"] \in {"high", "critical"}
    /\ pc = "job-end" =>
         /\ blocked <=> outputs["risk-level"] = "critical"
         /\ JobHalted <=> outputs["risk-level"] = "critical"
         /\ outputs["risk-level"] = "high" => (warned /\ ~JobHalted)

C13_Witness ==
    /\ pc = "job-end" /\ outputs["risk-level"] = "high"
    /\ warned /\ ~failed /\ ~blocked

(***************************************************************************)
(* Vocabulary of the scoring properties, for positive thresholds.          *)
(***************************************************************************)
\* min(count / threshold * weight, weight) for integers count >= 0, threshold > 0.
CappedShare(count, threshold, weight) ==
    IF count >= threshold THEN Num(weight) ELSE Rat(weight * count, threshold)

RECURSIVE SumScores(_)
SumScores(fs) ==
    IF fs = <<>> THEN Num(0) ELSE JsAdd(Head(fs).score, SumScores(Tail(fs)))

\* The listed score of the entry with a name, 0 when there is none.
ListedScore(name) ==
    IF Entries(name) = {} THEN Num(0)
    ELSE factors[CHOOSE i \in Entries(name) : TRUE].score

\* The sum of the unrounded contributions of the four dimensions.
UnroundedTotal ==
    JsAdd(JsAdd(JsAdd(CappedShare(filesChanged, filesThreshold.n, 30),
                      CappedShare(totalLines, linesThreshold.n, 35)),
                ListedScore("Critical Paths")),
          ListedScore("High Deletion Ratio"))

\* r is x rounded to the nearest integer, halves up: r - 1/2 <= x < r + 1/2.
IsRoundHalfUp(r, x) ==
    /\ (2 * r - 1) * x.d <= 2 * x.n
    /\ 2 * x.n < (2 * r + 1) * x.d

(***************************************************************************)
(* C15.  As claimed: with positive thresholds the reported score is        *)
(* min(100, sum of the score fields listed in factors).                    *)
(***************************************************************************)
C15_ScoreIsSumOfListedScores ==
    (ScoreCapped /\ PositiveThresholds) =>
        riskScore = MathMin(Num(100), SumScores(factors))

(***************************************************************************)
(* What the code does instead: the reported score is min(100, round(S)),   *)
(* S the sum of the unrounded capped contributions; the score fields       *)
(* listed in factors are rounded one by one, and their sum differs from    *)
(* the reported score by at most 1.                                        *)
(***************************************************************************)
ScoreIsRoundedTotal ==
    (ScoreCapped /\ PositiveThresholds) =>
        /\ IsInteger(riskScore)
        /\ \/ riskScore.n = 100 /\ 2 * UnroundedTotal.n >= 199 * UnroundedTotal.d
           \/ riskScore.n <= 100 /\ IsRoundHalfUp(riskScore.n, UnroundedTotal)
        /\ LET listed == SumScores(factors)
           IN  /\ IsInteger(listed)
               /\ listed.n - riskScore.n \in {-1, 0, 1}

(***************************************************************************)
(* C16.  With positive thresholds the files contribution is                *)
(* min(filesChanged / filesChangedThreshold * 30, 30), in [0, 30], and the *)
(* lines contribution min(totalLines / linesChangedThreshold * 35, 35), in *)
(* [0, 35]; each is at its cap exactly when the count reaches the          *)
(* threshold; with both at the cap, no critical-path hit and no deletion   *)
(* hit the score is 65 and the level high.                                 *)
(***************************************************************************)
C16_CappedContributions ==
    (FactorsDone /\ PositiveThresholds) =>
        LET files == FilesFactor(filesChanged, filesThreshold)
            lines == LinesFactor(totalLines, linesThreshold)
        IN  /\ files = CappedShare(filesChanged, filesThreshold.n, 30)
            /\ lines = CappedShare(totalLines, linesThreshold.n, 35)
            /\ JsGe(files, Num(0)) /\ JsGe(Num(30), files)
            /\ JsGe(lines, Num(0)) /\ JsGe(Num(35), lines)
            /\ files = Num(30) <=> filesChanged >= filesThreshold.n
            /\ lines = Num(35) <=> totalLines >= linesThreshold.n
            /\ pc = "factors" => riskScore = UnroundedTotal
            /\ ( /\ OutputsSet
                 /\ filesChanged >= filesThreshold.n
                 /\ totalLines >= linesThreshold.n
                 /\ ListedScore("Critical Paths") = Num(0)
                 /\ Entries("High Deletion Ratio") = {} ) =>
                   /\ outputs["risk-score"] = <<"6", "5">>
                   /\ outputs["risk-level"] = "high"

C16_Witness ==
    /\ pc = "done" /\ PositiveThresholds
    /\ filesChanged = 40 /\ filesThreshold = Num(20)
    /\ totalLines >= 600 /\ linesThreshold = Num(500)
    /\ ListedScore("Critical Paths") = Num(0)
    /\ Entries("High Deletion Ratio") = {}
    /\ outputs["risk-score"] = <<"6", "5">> /\ outputs["risk-level"] = "high"

(***************************************************************************)
(* C17.  The cap step turns the raw total into round(min(raw, 100)), which *)
(* is also min(round(raw), 100); rounding is half up, so a raw total of    *)
(* k + 1/2 gives k + 1.                                                    *)
(***************************************************************************)
C17_RoundHalfUpThenCap ==
    [][ (pc = "factors" /\ pc' = "capped") =>
          LET raw == riskScore
              score == riskScore'
          IN  /\ score = MathRound(MathMin(raw, Num(100)))
              /\ score = MathMin(MathRound(raw), Num(100))
              /\ IsFinite(raw) =>
                   /\ IsInteger(score)
                   /\ IF 2 * raw.n >= 199 * raw.d THEN score.n = 100
                      ELSE IsRoundHalfUp(score.n, raw)
                   /\ (raw.d = 2 /\ raw.n < 199) => 2 * score.n = raw.n + 1
      ]_vars

C17_Witness ==
    /\ pc = "capped"
    /\ filesChanged = 10 /\ filesThreshold = Num(20)
    /\ totalLines = 250 /\ linesThreshold = Num(500)
    /\ UnroundedTotal = Rat(65, 2)
    /\ riskScore = Num(33)

(***************************************************************************)
(* C18.  factors lists Files Changed first, Lines Changed second, then     *)
(* Critical Paths, then the deletion-ratio entry last; Files Changed and   *)
(* Lines Changed are listed once in every run and no name is listed twice. *)
(***************************************************************************)
C18_FactorsInEvaluationOrder ==
    FactorsDone =>
        /\ Len(factors) >= 2
        /\ factors[1].name = "Files Changed"
        /\ factors[2].name = "Lines Changed"
        /\ Entries("Files Changed") = {1}
        /\ Entries("Lines Changed") = {2}
        /\ Entries("Critical Paths") \subseteq {3}
        /\ Entries("High Deletion Ratio") \subseteq {Len(factors)}
        /\ \A i, j \in 1..Len(factors) : factors[i].name = factors[j].name => i = j
        /\ \A i \in 1..Len(factors) :
             factors[i].name \in {"Files Changed", "Lines Changed", "Critical Paths",
                                  "High Deletion Ratio"}

C18_Witness ==
    /\ pc = "done" /\ Len(factors) = 4
    /\ factors[1].name = "Files Changed" /\ factors[2].name = "Lines Changed"
    /\ factors[3].name = "Critical Paths" /\ factors[3].value = "Yes"
    /\ factors[4].name = "High Deletion Ratio"

(***************************************************************************)
(* C19.  The impact of a numeric factor follows its capped contribution    *)
(* with strict thresholds: Files Changed is high above 20, medium above    *)
(* 10, else low; Lines Changed is high above 25, medium above 15, else     *)
(* low; a contribution of exactly 10, 20, 15 or 25 takes the lower label,  *)
(* and only a critical-path entry that scores 0 is labelled none.          *)
(***************************************************************************)
Label(contribution, high, medium) ==
    IF JsGt(contribution, Num(high)) THEN "high"
    ELSE IF JsGt(contribution, Num(medium)) THEN "medium"
    ELSE "low"

C19_ImpactLabels ==
    FactorsDone =>
        LET files == FilesFactor(filesChanged, filesThreshold)
            lines == LinesFactor(totalLines, linesThreshold)
        IN  /\ \A i \in Entries("Files Changed") :
                 /\ factors[i].impact = Label(files, 20, 10)
                 /\ files = Num(20) => factors[i].impact = "medium"
                 /\ files = Num(10) => factors[i].impact = "low"
            /\ \A i \in Entries("Lines Changed") :
                 /\ factors[i].impact = Label(lines, 25, 15)
                 /\ lines = Num(25) => factors[i].impact = "medium"
                 /\ lines = Num(15) => factors[i].impact = "low"
            /\ \A i \in 1..Len(factors) :
                 factors[i].impact = "none" =>
                     (factors[i].name = "Critical Paths" /\ factors[i].score = Num(0))

C19_Witness ==
    /\ pc = "done"
    /\ FilesFactor(filesChanged, filesThreshold) = Num(10)
    /\ LinesFactor(totalLines, linesThreshold) = Num(25)
    /\ factors[1].impact = "low" /\ factors[2].impact = "medium"
    /\ factors[3].impact = "none"


(***************************************************************************)
(* The validate-inputs action (.github/actions/validate-inputs/index.js).  *)
(***************************************************************************)
Development == <<"d", "e", "v", "e", "l", "o", "p", "m", "e", "n", "t">>
Staging == <<"s", "t", "a", "g", "i", "n", "g">>
Production == <<"p", "r", "o", "d", "u", "c", "t", "i", "o", "n">>
DefaultPort == <<"8", "0", "8", "0">>
DefaultEnableSSL == <<"t", "r", "u", "e">>

\* The texts a workflow passes to the step.
EnvironmentTexts ==
    { <<>>, <<" ">>, Staging, <<" ">> \o Production, <<"p", "r", "o", "d">> }
VersionTexts ==
    { <<>>, <<"1", ".", "2", ".", "3">>, <<"v", "1", ".", "0", ".", "0">>,
      <<"1", ".", "2">>, <<"0", "1", ".", "2", ".", "3">> }
PortTexts ==
    { DefaultPort, <<>>, <<"0">>, <<"6", "5", "5", "3", "5">>,
      <<"6", "5", "5", "3", "6">>, <<"8", "0", "x">> }
EnableSSLTexts ==
    { DefaultEnableSSL, <<"f", "a", "l", "s", "e">>, <<"T", "R", "U", "E">>,
      <<"y", "e", "s">>, <<>> }

ValidateInputs ==
    [environment : EnvironmentTexts, version : VersionTexts, port : PortTexts,
     enableSSL : EnableSSLTexts]

\* String.prototype.toLowerCase on the letters A-Z.
UpperCase == <<"A", "B", "C", "D", "E", "F", "G", "H", "I", "J", "K", "L", "M",
               "N", "O", "P", "Q", "R", "S", "T", "U", "V", "W", "X", "Y", "Z">>
LowerCase == <<"a", "b", "c", "d", "e", "f", "g", "h", "i", "j", "k", "l", "m",
               "n", "o", "p", "q", "r", "s", "t", "u", "v", "w", "x", "y", "z">>
LowerChar(c) ==
    IF \E i \in 1..Len(UpperCase) : UpperCase[i] = c
    THEN LowerCase[CHOOSE i \in 1..Len(UpperCase) : UpperCase[i] = c]
    ELSE c
ToLowerCase(s) == [i \in 1..Len(s) |-> LowerChar(s[i])]

\* core.getInput(name, { required: true }): an input that is not supplied
\* throws; a supplied one is trimmed.
InputSupplied(text) == text # <<>>

\* validEnvironments.includes(environment)
ValidEnvironments == <<Development, Staging, Production>>
Includes(array, x) == \E i \in 1..Len(array) : array[i] = x

\* A numeric identifier of semver: 0, or digits without a leading zero.
IsNumericIdentifier(s) ==
    /\ s # <<>>
    /\ \A i \in 1..Len(s) : IsDigit(s[i])
    /\ Len(s) > 1 => s[1] # "0"

\* semver.valid(version), strict mode: the trimmed text is an optional "v"
\* and major.minor.patch.  Pre-release and build suffixes ("-", "+") are
\* outside the texts of VersionTexts and are not read.
SemverValid(v) ==
    LET t == Trim(v)
        u == IF t # <<>> /\ Head(t) = "v" THEN Tail(t) ELSE t
        parts == Split(u, ".")
    IN  /\ Len(parts) = 3
        /\ \A i \in 1..3 : IsNumericIdentifier(parts[i])

\* A port check without its upper limit.
IsValidPortNoUpperLimit(p) ==
    LET portNumber == ParseInt(p)
    IN  ~(portNumber.k # "fin" \/ portNumber.n < 1)

\* !(isNaN(portNumber) || portNumber < 1 || portNumber > 65535)
MaxPort == 65535
IsValidPort(p) ==
    LET portNumber == ParseInt(p)
    IN  ~(portNumber.k # "fin" \/ portNumber.n < 1 \/ portNumber.n > MaxPort)

\* ['true', 'false'].includes(enableSSL.toLowerCase())
IsValidEnableSSL(s) ==
    Includes(<< <<"t", "r", "u", "e">>, <<"f", "a", "l", "s", "e">> >>, ToLowerCase(s))

\* The error messages of lines 29, 40, 53 and 64, and of setFailed.
InvalidMessage(input, value) == [input |-> input, value |-> value]
ListItem(error) == [text |-> "  - ", error |-> <<error>>]
ErrorsHeader == [text |-> "Validation failed with the following errors:", error |-> <<>>]
ValidationFailed == [text |-> "Input validation failed", error |-> <<>>]
ActionFailed(message) == [text |-> "Action failed: ", error |-> <<message>>]
NotSupplied(name) == [input |-> name, value |-> "Input required and not supplied"]

validateLocals == <<environment, version, port, enableSSL, isValid, errors>>
validateEffects == <<vErrorLog, vOutputs, vFailed, vUnhandled>>

\* Lines 11-17; a throw of getInput lands in the catch of lines 115-118.
\* core.setFailed logs its message with core.error.
ValidateGetInputs ==
    /\ vpc = "start"
    /\ IF ~InputSupplied(vInputs.environment) \/ ~InputSupplied(vInputs.version)
       THEN LET name == IF ~InputSupplied(vInputs.environment)
                        THEN "environment" ELSE "version"
            IN  /\ vFailed' = Append(vFailed, ActionFailed(NotSupplied(name)))
                /\ vErrorLog' = Append(vErrorLog, ActionFailed(NotSupplied(name)))
                /\ vpc' = "done"
                /\ UNCHANGED <<validateLocals, vOutputs, vUnhandled>>
       ELSE /\ environment' = Trim(vInputs.environment)
            /\ version' = Trim(vInputs.version)
            /\ port' = Trim(vInputs.port)
            /\ enableSSL' = Trim(vInputs.enableSSL)
            /\ vpc' = "inputs"
            /\ UNCHANGED <<isValid, errors, validateEffects>>
    /\ UNCHANGED <<riskVars, repoVars, vInputs>>

\* One check of lines 27-70: an invalid value adds its message and clears
\* isValid.
Checked(valid, input, value) ==
    [errors |-> IF valid THEN errors ELSE Append(errors, InvalidMessage(input, value)),
     isValid |-> IF valid THEN isValid ELSE FALSE]

\* Lines 25-35.
ValidateEnvironment ==
    /\ vpc = "inputs"
    /\ errors' = Checked(Includes(ValidEnvironments, environment),
                         "environment", environment).errors
    /\ isValid' = Checked(Includes(ValidEnvironments, environment),
                          "environment", environment).isValid
    /\ vpc' = "environment"
    /\ UNCHANGED <<riskVars, repoVars, vInputs, environment, version, port, enableSSL,
                   validateEffects>>

\* A version check that is skipped once another check has failed.
ValidateVersionUnlessFailed ==
    /\ vpc = "environment"
    /\ errors' = Checked(~isValid \/ SemverValid(version), "version", version).errors
    /\ isValid' = Checked(~isValid \/ SemverValid(version), "version", version).isValid
    /\ vpc' = "version"
    /\ UNCHANGED <<riskVars, repoVars, vInputs, environment, version, port, enableSSL,
                   validateEffects>>

\* Lines 37-46.
ValidateVersion ==
    /\ vpc = "environment"
    /\ errors' = Checked(SemverValid(version), "version", version).errors
    /\ isValid' = Checked(SemverValid(version), "version", version).isValid
    /\ vpc' = "version"
    /\ UNCHANGED <<riskVars, repoVars, vInputs, environment, version, port, enableSSL,
                   validateEffects>>

\* Lines 48-59.
ValidatePort ==
    /\ vpc = "version"
    /\ errors' = Checked(IsValidPort(port), "port", port).errors
    /\ isValid' = Checked(IsValidPort(port), "port", port).isValid
    /\ vpc' = "port"
    /\ UNCHANGED <<riskVars, repoVars, vInputs, environment, version, port, enableSSL,
                   validateEffects>>

\* Lines 61-70.
ValidateEnableSSL ==
    /\ vpc = "port"
    /\ errors' = Checked(IsValidEnableSSL(enableSSL), "enable-ssl", enableSSL).errors
    /\ isValid' = Checked(IsValidEnableSSL(enableSSL), "enable-ssl", enableSSL).isValid
    /\ vpc' = "checked"
    /\ UNCHANGED <<riskVars, repoVars, vInputs, environment, version, port, enableSSL,
                   validateEffects>>

\* Lines 73-82: the header, one line per error, then setFailed and return.
ValidateReportErrors ==
    /\ vpc = "checked"
    /\ ~isValid
    /\ vErrorLog' = vErrorLog \o <<ErrorsHeader>>
                    \o [i \in 1..Len(errors) |-> ListItem(errors[i])]
                    \o <<ValidationFailed>>
    /\ vFailed' = Append(vFailed, ValidationFailed)
    /\ vpc' = "done"
    /\ UNCHANGED <<riskVars, repoVars, vInputs, validateLocals, vOutputs, vUnhandled>>

\* Lines 85-96; JSON.stringify writes the port as a number and ssl as a
\* boolean.
ValidatedConfig(timestamp) ==
    [environment |-> environment,
     version |-> version,
     port |-> JsonNumber(ParseInt(port)),
     ssl |-> enableSSL = <<"t", "r", "u", "e">>,
     timestamp |-> timestamp]

\* Lines 84-101.
ValidateSetOutputs ==
    /\ vpc = "checked"
    /\ isValid
    /\ \E now \in 1..MaxRuns :
         vOutputs' = ("validated" :> "true") @@ ("config" :> ValidatedConfig(now))
    /\ vpc' = "outputs"
    /\ UNCHANGED <<riskVars, repoVars, vInputs, validateLocals, vErrorLog, vFailed,
                   vUnhandled>>

\* Lines 103-113: the promise of core.summary.write() is not awaited, so a
\* rejection reaches no handler of run().
ValidateWriteSummary ==
    /\ vpc = "outputs"
    /\ \E written \in BOOLEAN :
         vUnhandled' = IF written THEN vUnhandled
                       ELSE Append(vUnhandled, "core.summary.write")
    /\ vpc' = "done"
    /\ UNCHANGED <<riskVars, repoVars, vInputs, validateLocals, vErrorLog, vOutputs,
                   vFailed>>

InitValidate ==
    /\ inputs = [files |-> DefaultFilesThreshold, lines |-> DefaultLinesThreshold,
                 critical |-> DefaultCriticalPaths]
    /\ event = [pull_request |-> NoPullRequest, paths |-> {PathElsewhere}]
    /\ runNo = 1
    /\ prev = NoPrev
    /\ Fresh
    /\ failed = FALSE /\ blocked = FALSE
    /\ RepoIdle
    /\ vInputs \in ValidateInputs
    /\ vpc = "start"
    /\ environment = <<>> /\ version = <<>> /\ port = <<>> /\ enableSSL = <<>>
    /\ isValid = TRUE /\ errors = <<>>
    /\ vErrorLog = <<>>
    /\ vOutputs = NoOutputs
    /\ vFailed = <<>>
    /\ vUnhandled = <<>>

NextValidate ==
    \/ ValidateGetInputs
    \/ ValidateEnvironment
    \/ ValidateVersion
    \/ ValidatePort
    \/ ValidateEnableSSL
    \/ ValidateReportErrors
    \/ ValidateSetOutputs
    \/ ValidateWriteSummary

SpecValidate == InitValidate /\ [][NextValidate]_vars

(***************************************************************************)
(* Vocabulary of the validation properties: which of the texts of          *)
(* ValidateInputs are valid values, and how many inputs of a run are not.  *)
(***************************************************************************)
AcceptedEnvironments == { Staging, <<" ">> \o Production }
AcceptedVersions == { <<"1", ".", "2", ".", "3">>, <<"v", "1", ".", "0", ".", "0">> }
AcceptedPorts == { <<"8", "0", "8", "0">>, <<"6", "5", "5", "3", "5">>, <<"8", "0", "x">> }
AcceptedEnableSSL == { <<"t", "r", "u", "e">>, <<"f", "a", "l", "s", "e">>,
                       <<"T", "R", "U", "E">> }

InvalidInputNames ==
    (IF vInputs.environment \in AcceptedEnvironments THEN {} ELSE {"environment"})
    \cup (IF vInputs.version \in AcceptedVersions THEN {} ELSE {"version"})
    \cup (IF vInputs.port \in AcceptedPorts THEN {} ELSE {"port"})
    \cup (IF vInputs.enableSSL \in AcceptedEnableSSL THEN {} ELSE {"enable-ssl"})

AllInputsValid == InvalidInputNames = {}
RequiredSupplied == vInputs.environment # <<>> /\ vInputs.version # <<>>
ValidatedSet == "validated" \in DOMAIN vOutputs /\ vOutputs["validated"] = "true"
ConfigSet == "config" \in DOMAIN vOutputs

(***************************************************************************)
(* C12.  As claimed: a finished run has set validated = 'true' and config  *)
(* exactly when all four inputs are valid; otherwise it has called         *)
(* setFailed('Input validation failed') and set no output; never both.     *)
(***************************************************************************)
C12_ValidatedOrValidationFailed ==
    vpc = "done" =>
        /\ (ValidatedSet /\ ConfigSet) <=> AllInputsValid
        /\ ~AllInputsValid => (vFailed = <<ValidationFailed>> /\ vOutputs = NoOutputs)
        /\ ~(ValidatedSet /\ vFailed # <<>>)

(***************************************************************************)
(* C12, amended.  A finished run has set validated = 'true' and config     *)
(* exactly when all four inputs are valid; otherwise it has set no output  *)
(* and called setFailed once: with 'Input validation failed' when both     *)
(* required inputs were supplied, with 'Action failed: Input required and  *)
(* not supplied: <name>' when environment or version was not.  No run both *)
(* sets validated = 'true' and calls setFailed.                            *)
(***************************************************************************)
C12_ValidatedOrFailed ==
    /\ ~(ValidatedSet /\ vFailed # <<>>)
    /\ ValidatedSet <=> ConfigSet
    /\ vpc = "done" =>
         /\ (ValidatedSet /\ ConfigSet) <=> AllInputsValid
         /\ ~AllInputsValid =>
              /\ vOutputs = NoOutputs
              /\ vFailed = IF RequiredSupplied THEN <<ValidationFailed>>
                           ELSE IF vInputs.environment = <<>>
                                THEN <<ActionFailed(NotSupplied("environment"))>>
                                ELSE <<ActionFailed(NotSupplied("version"))>>

C12_Witness ==
    /\ vpc = "done"
    /\ vInputs.environment = <<>>
    /\ vInputs.port = <<"6", "5", "5", "3", "6">>
    /\ vFailed = <<ActionFailed(NotSupplied("environment"))>>
    /\ vOutputs = NoOutputs

(***************************************************************************)
(* C20.  As claimed: a run whose inputs are not all valid reports one      *)
(* message per invalid input and no other (1 to 4 of them), isValid is     *)
(* false exactly when errors is non-empty, and setFailed is called once,   *)
(* after the messages are logged.                                          *)
(***************************************************************************)
ReportedInputs == { errors[i].input : i \in 1..Len(errors) }

OneMessagePerInvalidInput ==
    /\ Len(errors) = Cardinality(InvalidInputNames)
    /\ Len(errors) \in 1..4
    /\ ReportedInputs = InvalidInputNames
    /\ vErrorLog = <<ErrorsHeader>> \o [i \in 1..Len(errors) |-> ListItem(errors[i])]
                   \o <<ValidationFailed>>
    /\ vFailed = <<ValidationFailed>>

C20_AllInputsChecked ==
    /\ isValid <=> errors = <<>>
    /\ (vpc = "done" /\ ~AllInputsValid) => OneMessagePerInvalidInput

(***************************************************************************)
(* C20, amended.  When both required inputs are supplied, a run whose      *)
(* inputs are not all valid reports one message per invalid input and no   *)
(* other (1 to 4 of them), in the order environment, version, port,        *)
(* enable-ssl, and calls setFailed once, after the messages are logged;    *)
(* isValid is false exactly when errors is non-empty.  A run without       *)
(* environment or version stops at the first getInput that throws and      *)
(* checks no input.                                                        *)
(***************************************************************************)
C20_AllSuppliedInputsChecked ==
    /\ isValid <=> errors = <<>>
    /\ (vpc = "done" /\ ~AllInputsValid /\ RequiredSupplied) => OneMessagePerInvalidInput
    /\ (vpc = "done" /\ ~RequiredSupplied) => (errors = <<>> /\ Len(vErrorLog) = 1)

C20_Witness ==
    /\ vpc = "done"
    /\ Len(errors) = 4
    /\ errors[1].input = "environment" /\ errors[2].input = "version"
    /\ errors[3].input = "port" /\ errors[4].input = "enable-ssl"
    /\ Len(vErrorLog) = 6
    /\ vFailed = <<ValidationFailed>>


(***************************************************************************)
(* The repo-info action (.github/actions/repo-info/index.js).              *)
(***************************************************************************)
TrueText == <<"t", "r", "u", "e">>

TokenTexts == { <<>>, <<"t">> }
IncludeCollaboratorsTexts ==
    { <<>>, TrueText, <<"f", "a", "l", "s", "e">>, <<"T", "R", "U", "E">>,
      <<" ">> \o TrueText }

RepoInputs == [token : TokenTexts, includeCollaborators : IncludeCollaboratorsTexts]

\* What octokit.rest.repos.get can resolve to.
RepoDatas ==
    [full_name : {"o/r"}, stargazers_count : 0..RandSteps, open_issues_count : 0..1]

\* An API call and whether its promise was fulfilled.
Call(name, fulfilled) == [call |-> name, fulfilled |-> fulfilled]

\* core.setFailed(`Action failed with error: ${error.message}`)
ActionFailedWithError(message) ==
    [text |-> "Action failed with error: ", error |-> <<message>>]

\* Inputs read with a comparison that ignores case.
RepoGetInputsIgnoringCase ==
    /\ rpc = "start"
    /\ IF ~InputSupplied(rInputs.token)
       THEN /\ rFailed' = Append(rFailed,
                                 ActionFailedWithError("Input required and not supplied: github-token"))
            /\ rpc' = "done"
            /\ UNCHANGED includeCollaborators
       ELSE /\ includeCollaborators' =
                 (ToLowerCase(Trim(rInputs.includeCollaborators)) = TrueText)
            /\ rpc' = "inputs"
            /\ UNCHANGED rFailed
    /\ UNCHANGED <<riskVars, validateVars, rInputs, repoData, rCalls, rOutputs, rUnhandled>>

\* Lines 7-8; a throw of getInput lands in the catch of lines 53-55.
RepoGetInputs ==
    /\ rpc = "start"
    /\ IF ~InputSupplied(rInputs.token)
       THEN /\ rFailed' = Append(rFailed,
                                 ActionFailedWithError("Input required and not supplied: github-token"))
            /\ rpc' = "done"
            /\ UNCHANGED includeCollaborators
       ELSE /\ includeCollaborators' = (Trim(rInputs.includeCollaborators) = TrueText)
            /\ rpc' = "inputs"
            /\ UNCHANGED rFailed
    /\ UNCHANGED <<riskVars, validateVars, rInputs, repoData, rCalls, rOutputs, rUnhandled>>

\* Lines 18-21: await octokit.rest.repos.get; a rejection is thrown into
\* the catch.
RepoGet ==
    /\ rpc = "inputs"
    /\ \/ \E data \in RepoDatas :
            /\ repoData' = data
            /\ rCalls' = Append(rCalls, Call("repos.get", TRUE))
            /\ rpc' = "fetched"
            /\ UNCHANGED rFailed
       \/ /\ rCalls' = Append(rCalls, Call("repos.get", FALSE))
          /\ rFailed' = Append(rFailed, ActionFailedWithError("repos.get"))
          /\ rpc' = "done"
          /\ UNCHANGED repoData
    /\ UNCHANGED <<riskVars, validateVars, rInputs, includeCollaborators, rOutputs,
                   rUnhandled>>

\* Lines 24-26; setOutput writes a number as its decimal text.
RepoSetOutputs ==
    /\ rpc = "fetched"
    /\ rOutputs' = ("repo-name" :> repoData.full_name)
                   @@ ("stars" :> NatToString(repoData.stargazers_count))
                   @@ ("open-issues" :> NatToString(repoData.open_issues_count))
    /\ rpc' = "outputs"
    /\ UNCHANGED <<riskVars, validateVars, rInputs, includeCollaborators, repoData,
                   rCalls, rFailed, rUnhandled>>

\* Lines 33-39: await listCollaborators when asked to; a rejection is
\* thrown into the catch.
RepoListCollaborators ==
    /\ rpc = "outputs"
    /\ IF includeCollaborators
       THEN \/ /\ rCalls' = Append(rCalls, Call("repos.listCollaborators", TRUE))
               /\ rpc' = "listed"
               /\ UNCHANGED rFailed
            \/ /\ rCalls' = Append(rCalls, Call("repos.listCollaborators", FALSE))
               /\ rFailed' = Append(rFailed,
                                    ActionFailedWithError("repos.listCollaborators"))
               /\ rpc' = "done"
       ELSE /\ rpc' = "listed"
            /\ UNCHANGED <<rCalls, rFailed>>
    /\ UNCHANGED <<riskVars, validateVars, rInputs, includeCollaborators, repoData,
                   rOutputs, rUnhandled>>

\* Lines 42-51: the promise of core.summary.write() is not awaited; run()
\* has left its try block when the promise settles, so a rejection reaches
\* no handler.
RepoWriteSummary ==
    /\ rpc = "listed"
    /\ \E written \in BOOLEAN :
         /\ rCalls' = Append(rCalls, Call("summary.write", written))
         /\ rUnhandled' = IF written THEN rUnhandled
                          ELSE Append(rUnhandled, "summary.write")
    /\ rpc' = "done"
    /\ UNCHANGED <<riskVars, validateVars, rInputs, includeCollaborators, repoData,
                   rOutputs, rFailed>>

InitRepo ==
    /\ inputs = [files |-> DefaultFilesThreshold, lines |-> DefaultLinesThreshold,
                 critical |-> DefaultCriticalPaths]
    /\ event = [pull_request |-> NoPullRequest, paths |-> {PathElsewhere}]
    /\ runNo = 1
    /\ prev = NoPrev
    /\ Fresh
    /\ failed = FALSE /\ blocked = FALSE
    /\ ValidateIdle
    /\ rInputs \in RepoInputs
    /\ rpc = "start"
    /\ includeCollaborators = FALSE
    /\ repoData = NoRepoData
    /\ rCalls = <<>>
    /\ rOutputs = NoOutputs
    /\ rFailed = <<>>
    /\ rUnhandled = <<>>

NextRepo ==
    \/ RepoGetInputs
    \/ RepoGet
    \/ RepoSetOutputs
    \/ RepoListCollaborators
    \/ RepoWriteSummary

SpecRepo == InitRepo /\ [][NextRepo]_vars

(***************************************************************************)
(* C14.  Every failure of a collaborator call of repo-info (repos.get,     *)
(* listCollaborators, the write of the job summary) ends in setFailed      *)
(* carrying that error, and no failure leaves run() unreported.            *)
(***************************************************************************)
C14_EveryFailureReported ==
    /\ rUnhandled = <<>>
    /\ rpc = "done" =>
         \A i \in 1..Len(rCalls) :
             ~rCalls[i].fulfilled => rFailed = <<ActionFailedWithError(rCalls[i].call)>>


(***************************************************************************)
(* Vocabulary of the repo-info properties.                                 *)
(***************************************************************************)
Called(name) == { i \in 1..Len(rCalls) : rCalls[i].call = name }
ReposGetSucceeded == rCalls # <<>> /\ rCalls[1] = Call("repos.get", TRUE)

\* The texts of IncludeCollaboratorsTexts that getInput delivers as 'true'.
AsksForCollaborators ==
    rInputs.includeCollaborators \in { <<"t", "r", "u", "e">>, <<" ", "t", "r", "u", "e">> }

RepoOutputNames == {"repo-name", "stars", "open-issues"}

(***************************************************************************)
(* C21.  repo-info calls listCollaborators exactly when the                *)
(* include-collaborators input that getInput delivers is the string        *)
(* 'true', and only after repos.get has succeeded; no output is set unless *)
(* repos.get succeeded, and without a token no API call is made.           *)
(***************************************************************************)
C21_CollaboratorsOnlyWhenAsked ==
    /\ \A i \in Called("repos.listCollaborators") :
         AsksForCollaborators /\ ReposGetSucceeded /\ i = 2
    /\ Cardinality(Called("repos.listCollaborators")) <= 1
    /\ (rpc \in {"listed", "done"} /\ ReposGetSucceeded) =>
         (Called("repos.listCollaborators") # {} <=> AsksForCollaborators)
    /\ rOutputs # NoOutputs => ReposGetSucceeded
    /\ rInputs.token = <<>> => rCalls = <<>>

C21_Witness ==
    /\ rpc = "done"
    /\ rInputs.includeCollaborators = <<"t", "r", "u", "e">>
    /\ Len(rCalls) = 3
    /\ rCalls[1] = Call("repos.get", TRUE)
    /\ rCalls[2] = Call("repos.listCollaborators", TRUE)
    /\ DOMAIN rOutputs = RepoOutputNames

(***************************************************************************)
(* C22.  A run of repo-info that has called setFailed has set none of the  *)
(* outputs repo-name, stars and open-issues.                               *)
(***************************************************************************)
C22_FailedRunSetsNoOutput ==
    rFailed # <<>> => DOMAIN rOutputs \cap RepoOutputNames = {}

(***************************************************************************)
(* C23.  When validate-inputs succeeds, the ssl field of the config is     *)
(* true exactly when the enable-ssl input is 'true' in any letter case.    *)
(***************************************************************************)
DenotesTrue ==
    vInputs.enableSSL \in { <<"t", "r", "u", "e">>, <<"T", "R", "U", "E">> }

C23_SslFollowsValidatedInput ==
    ConfigSet => (vOutputs["config"].ssl <=> DenotesTrue)

(***************************************************************************)
(* C24.  The analysis output agrees with the other outputs of the run: its *)
(* riskScore is the number the risk-score output prints, its riskLevel and *)
(* recommendation are the risk-level and recommendation outputs, the Files *)
(* Changed factor's value is metrics.filesChanged, the Lines Changed       *)
(* factor's value is metrics.totalLines = additions + deletions, each      *)
(* factor's threshold is the configured threshold; a run that is not       *)
(* marked failed sets all four outputs.                                    *)
(***************************************************************************)
RiskOutputNames == {"risk-score", "risk-level", "recommendation", "analysis"}

\* A number of the analysis record is the number a text prints.
JsonPrints(json, text) == json.k \in {"fin"} /\ NumberToString(json) = text

\* A threshold of the analysis record is the configured threshold.
JsonIsNumber(json, x) == json.k \in {"fin"} /\ json = x

AnalysisAgrees ==
    LET a == outputs["analysis"]
    IN  /\ JsonPrints(a.riskScore, outputs["risk-score"])
        /\ a.riskLevel = outputs["risk-level"]
        /\ a.recommendation = outputs["recommendation"]
        /\ a.metrics.totalLines = a.metrics.additions + a.metrics.deletions
        /\ \A i \in 1..Len(a.factors) :
             /\ a.factors[i].name = "Files Changed" =>
                  /\ a.factors[i].value = Num(a.metrics.filesChanged)
                  /\ JsonIsNumber(a.factors[i].threshold, filesThreshold)
             /\ a.factors[i].name = "Lines Changed" =>
                  /\ a.factors[i].value = Num(a.metrics.totalLines)
                  /\ JsonIsNumber(a.factors[i].threshold, linesThreshold)

C24_AnalysisConsistentWithOutputs ==
    (pc \in {"outputs", "done", "job-end"} /\ ~failed) =>
        /\ DOMAIN outputs = RiskOutputNames
        /\ AnalysisAgrees

\* What the code does when both thresholds are read as numbers.
AnalysisConsistentForNumericThresholds ==
    (pc \in {"outputs", "done", "job-end"} /\ ~failed
       /\ IsInteger(filesThreshold) /\ IsInteger(linesThreshold)) =>
        /\ DOMAIN outputs = RiskOutputNames
        /\ AnalysisAgrees

=============================================================================
